---- MODULE Spec2Model ----
(***************************************************************************)
(* A model of the normalisation and parsing layer of the sick-bed report   *)
(* tools: util::to_half_digits, data-formatter's parse_roman_numerals,     *)
(* parse_phase, get_number, read_record and collect_records, and           *)
(* data-scraper's extract_datetime and parse_html.                         *)
(*                                                                         *)
(* A string is a sequence of Unicode code points (integers); a Rust panic  *)
(* (a failed unwrap / expect, an arithmetic overflow under overflow        *)
(* checks) is the outcome [tag |-> "Panic"].                               *)
(***************************************************************************)
EXTENDS Integers, Sequences, FiniteSets, TLC

VARIABLES
    pc,        \* position of the operation under way: "call", "collect" or
               \* "scan" while it runs, then "done" (returned) or "panic"
    arg,       \* its input: a string, a cell, a grid or a page
    ret,       \* what it returned (NoRet while it has not returned)
    row,       \* collect_records: the row the range iterator yields next
    records,   \* collect_records: the records collected so far
    lis,       \* parse_html: elements of the list already consumed by `lis`
    k,         \* parse_html: values already taken from the counter `ns`
    dtls,      \* parse_html: the vector of reports
    overflow_checks  \* the build profile: TRUE when integer overflow panics

vars == <<pc, arg, ret, row, records, lis, k, dtls, overflow_checks>>

NoRet == [tag |-> "NoRet", val |-> <<>>]

-----------------------------------------------------------------------------
(* Bounds of the model.                                                    *)

\* longest string of the digit alphabet given to to_half_digits
MaxDigitLen == 3
\* longest string of the Roman alphabet given to parse_roman_numerals
MaxRomanLen == 3
\* longest phase cell over the phase alphabet given to parse_phase
MaxPhaseLen == 3

-----------------------------------------------------------------------------
(* Strings.                                                                *)

StringsUpTo(A, n) == UNION {[1..m -> A] : m \in 0..n}

\* code points with the Unicode White_Space property, which str::trim strips
WhiteSpace == {9, 10, 11, 12, 13, 32, 133, 160, 5760, 8232, 8233, 8239, 8287, 12288}
                 \cup (8192..8202)

RECURSIVE TrimStart(_)
TrimStart(s) ==
    IF s # <<>> /\ Head(s) \in WhiteSpace THEN TrimStart(Tail(s)) ELSE s

RECURSIVE TrimEnd(_)
TrimEnd(s) ==
    IF s # <<>> /\ s[Len(s)] \in WhiteSpace
    THEN TrimEnd(SubSeq(s, 1, Len(s) - 1)) ELSE s

Trim(s) == TrimEnd(TrimStart(s))

-----------------------------------------------------------------------------
(* util::to_half_digits                                                    *)

FW_ZERO == 65296      \* '\u{FF10}' FULLWIDTH DIGIT ZERO
FW_NINE == 65305      \* '\u{FF19}' FULLWIDTH DIGIT NINE
ASCII_ZERO == 48      \* '\u{0030}'
ASCII_NINE == 57      \* '\u{0039}'

Some(v) == [tag |-> "Some", val |-> v]
None == [tag |-> "None", val |-> <<>>]

\* the closure given to map: one character to Option<char>
HalfDigit(c) ==
    IF c \in FW_ZERO..FW_NINE THEN <<c - FW_ZERO + ASCII_ZERO>>
    ELSE IF c \in ASCII_ZERO..ASCII_NINE THEN <<c>>
    ELSE <<>>

\* collect::<Option<String>>(): the first None makes the whole result None
RECURSIVE CollectOption(_)
CollectOption(opts) ==
    IF opts = <<>> THEN Some(<<>>)
    ELSE IF Head(opts) = <<>> THEN None
    ELSE LET rest == CollectOption(Tail(opts))
         IN  IF rest.tag = "None" THEN None
             ELSE Some(<<Head(opts)[1]>> \o rest.val)

\* a best-effort variant that strips the characters it cannot convert
RECURSIVE StripNonDigits(_)
StripNonDigits(fd) ==
    IF fd = <<>> THEN Some(<<>>)
    ELSE LET rest == StripNonDigits(Tail(fd))
         IN  Some(HalfDigit(Head(fd)) \o rest.val)

to_half_digits(fd) == CollectOption([i \in 1..Len(fd) |-> HalfDigit(fd[i])])

-----------------------------------------------------------------------------
(* data-formatter: parse_roman_numerals                                    *)

ASCII_I == 73         \* 'I'
ASCII_V == 86         \* 'V'
ASCII_X == 88         \* 'X'
ROMAN_ONE == 8544     \* '\u{2160}' ROMAN NUMERAL ONE
ROMAN_TWO == 8545     \* '\u{2161}' ROMAN NUMERAL TWO
ROMAN_NINE == 8552    \* '\u{2168}' ROMAN NUMERAL NINE
ROMAN_TEN == 8553     \* '\u{2169}' ROMAN NUMERAL TEN
PEEK_FIVE == 12900    \* '\u{3264}', the code point the peek arm tests for
U8_MAX == 255

Ok(v) == [tag |-> "Ok", val |-> v]
Err(v) == [tag |-> "Err", val |-> v]
Panic == [tag |-> "Panic", val |-> <<>>]

ParseRomanError(c) == [kind |-> "ParseRomanError", ch |-> c]
ParseIntError == [kind |-> "ParseIntError", ch |-> 0]

\* one turn of the loop at position i: <<contribution, characters consumed>>,
\* or <<>> for the arm that returns Err
RomanArm(s, i) ==
    LET c == s[i]
        peek == IF i < Len(s) THEN s[i + 1] ELSE 0
    IN  IF c \in {ASCII_I, ROMAN_ONE}
        THEN IF peek \in {ASCII_V, PEEK_FIVE} THEN <<4, 2>>
             ELSE IF peek \in {ASCII_X, ROMAN_TEN} THEN <<9, 2>>
             ELSE <<1, 1>>
        ELSE IF c = ASCII_V THEN <<5, 1>>
        ELSE IF c \in ROMAN_TWO..ROMAN_NINE THEN <<c - ROMAN_ONE + 1, 1>>
        ELSE <<>>

\* the loop from position i with accumulator n (a u8): `n += k` panics on
\* overflow when overflow checks are on and wraps otherwise
RECURSIVE RomanLoop(_, _, _, _)
RomanLoop(s, i, n, checks) ==
    IF i > Len(s) THEN Ok(n)
    ELSE LET a == RomanArm(s, i)
         IN  IF a = <<>> THEN Err(ParseRomanError(s[i]))
             ELSE IF n + a[1] > U8_MAX /\ checks THEN Panic
             ELSE RomanLoop(s, i + a[2], (n + a[1]) % (U8_MAX + 1), checks)

parse_roman_numerals(s, checks) == RomanLoop(s, 1, 0, checks)

-----------------------------------------------------------------------------
(* data-formatter: parse_phase                                             *)

FULLWIDTH_SOLIDUS == 65295    \* '／'

\* str::split(sep): the parts between the separators, one more than separators
RECURSIVE Split(_, _)
Split(s, sep) ==
    IF \A i \in 1..Len(s) : s[i] # sep THEN <<s>>
    ELSE LET j == CHOOSE i \in 1..Len(s) :
                     s[i] = sep /\ \A h \in 1..(i - 1) : s[h] # sep
         IN  <<SubSeq(s, 1, j - 1)>> \o Split(SubSeq(s, j + 1, Len(s)), sep)

\* the value of a string of ASCII digits, or -1 once it exceeds max
RECURSIVE DecimalUpTo(_, _, _)
DecimalUpTo(s, acc, max) ==
    IF s = <<>> THEN acc
    ELSE LET d == Head(s) - ASCII_ZERO
         IN  IF acc > (max - d) \div 10 THEN -1
             ELSE DecimalUpTo(Tail(s), acc * 10 + d, max)

\* str::parse::<u8>() on a string of ASCII digits
ParseU8(s) ==
    IF s = <<>> THEN Err(ParseIntError)
    ELSE LET v == DecimalUpTo(s, 0, U8_MAX)
         IN  IF v < 0 THEN Err(ParseIntError) ELSE Ok(v)

Phase(c, m, mode) == [current |-> c, maximum |-> m, mode |-> mode]

\* a variant of the Normal arm that reads both fields from the first part
PhaseNormalOfFirst(c, m) ==
    LET cur == ParseU8(c)
        hm == to_half_digits(m)
    IN  IF cur.tag = "Err" THEN cur
        ELSE IF hm.tag = "None" THEN Panic
        ELSE Ok(Phase(cur.val, cur.val, "Normal"))

\* the Normal arm, taken when the first part normalises to `c`
PhaseNormal(c, m) ==
    LET cur == ParseU8(c)
        hm == to_half_digits(m)
        max == ParseU8(hm.val)
    IN  IF cur.tag = "Err" THEN cur
        ELSE IF hm.tag = "None" THEN Panic
        ELSE IF max.tag = "Err" THEN max
        ELSE Ok(Phase(cur.val, max.val, "Normal"))

\* the Emergency arm, on the trimmed parts themselves
PhaseEmergency(c, m, checks) ==
    LET cur == parse_roman_numerals(c, checks)
        max == parse_roman_numerals(m, checks)
    IN  IF cur.tag # "Ok" THEN cur
        ELSE IF max.tag # "Ok" THEN max
        ELSE Ok(Phase(cur.val, max.val, "Emergency"))

parse_phase(s, checks) ==
    LET parts == Split(s, FULLWIDTH_SOLIDUS)
    IN  IF Len(parts) < 2 THEN Panic
        ELSE LET c == Trim(parts[1])
                 m == Trim(parts[2])
                 hc == to_half_digits(c)
             IN  IF hc.tag = "Some" THEN PhaseNormal(hc.val, m)
                 ELSE PhaseEmergency(c, m, checks)

-----------------------------------------------------------------------------
(* The operations as steps: an input is drawn, then the call returns.      *)

\* where a call that came to `outcome` leaves the caller, and what it holds:
\* a panic returns nothing
Ended(outcome) == IF outcome.tag = "Panic" THEN "panic" ELSE "done"
Returned(outcome) == IF outcome.tag = "Panic" THEN NoRet ELSE outcome

Idle ==
    /\ row = 0 /\ records = <<>> /\ lis = 0 /\ k = 0 /\ dtls = <<>>

\* digits at and beside both ends of the two ranges, a space and a letter
DigitAlphabet == {47, 48, 57, 58, 65295, 65296, 65305, 65306, 32, 97}
DigitInputs ==
    StringsUpTo(DigitAlphabet, MaxDigitLen)
        \cup {<<49, 65297, 49, 65297, 49>>, <<65297, 65297>>}

InitDigits ==
    /\ pc = "call" /\ arg \in DigitInputs /\ ret = NoRet
    /\ overflow_checks = FALSE /\ Idle

CallToHalfDigits ==
    /\ pc = "call"
    /\ ret' = Returned(to_half_digits(arg))
    /\ pc' = Ended(to_half_digits(arg))
    /\ UNCHANGED <<arg, row, records, lis, k, dtls, overflow_checks>>

SpecDigits == InitDigits /\ [][CallToHalfDigits]_vars

RomanAlphabet ==
    {ASCII_I, ASCII_V, ASCII_X, ROMAN_ONE, ROMAN_TWO, 8548, ROMAN_NINE,
     ROMAN_TEN, PEEK_FIVE, 97}
\* twenty-nine ROMAN NUMERAL NINE: the sum passes 255
LongRoman == [i \in 1..29 |-> ROMAN_NINE]
RomanInputs ==
    StringsUpTo(RomanAlphabet, MaxRomanLen)
        \cup {LongRoman, LongRoman \o <<97>>}
        \cup {<<c>> : c \in ROMAN_ONE..ROMAN_TEN}

InitRoman ==
    /\ pc = "call" /\ arg \in RomanInputs /\ ret = NoRet
    /\ overflow_checks \in BOOLEAN /\ Idle

CallParseRomanNumerals ==
    /\ pc = "call"
    /\ ret' = Returned(parse_roman_numerals(arg, overflow_checks))
    /\ pc' = Ended(parse_roman_numerals(arg, overflow_checks))
    /\ UNCHANGED <<arg, row, records, lis, k, dtls, overflow_checks>>

SpecRoman == InitRoman /\ [][CallParseRomanNumerals]_vars

PhaseAlphabet ==
    {48, 50, 65298, FULLWIDTH_SOLIDUS, 32, 12288, ASCII_I, ASCII_V,
     ROMAN_ONE, ROMAN_TWO, 8548, 97}
PhaseInputs ==
    StringsUpTo(PhaseAlphabet, MaxPhaseLen)
        \cup { c \o <<FULLWIDTH_SOLIDUS>> \o m :
                 c \in {<<49, 50>>, <<50, 53, 54>>, <<50, 53, 53>>, LongRoman,
                        <<32, 65298, 32>>, <<ROMAN_ONE>>},
                 m \in {<<51>>, <<50, 53, 54>>, <<48, 48, 55>>, LongRoman,
                        <<12288, ROMAN_TWO, 32>>, <<ASCII_I, ASCII_X>>} }
        \cup {<<50, FULLWIDTH_SOLIDUS, 50, FULLWIDTH_SOLIDUS, 97>>}

InitPhase ==
    /\ pc = "call" /\ arg \in PhaseInputs /\ ret = NoRet
    /\ overflow_checks \in BOOLEAN /\ Idle

CallParsePhase ==
    /\ pc = "call"
    /\ ret' = Returned(parse_phase(arg, overflow_checks))
    /\ pc' = Ended(parse_phase(arg, overflow_checks))
    /\ UNCHANGED <<arg, row, records, lis, k, dtls, overflow_checks>>

SpecPhase == InitPhase /\ [][CallParsePhase]_vars

-----------------------------------------------------------------------------
(* data-scraper: extract_datetime                                          *)

LPAREN == 65288     \* '（'
RPAREN == 65289     \* '）'
NEN == 24180        \* '年'
GATSU == 26376      \* '月'
NICHI == 26085      \* '日'
JI == 26178         \* '時'
FUN == 20998        \* '分'
TEN == 28857        \* '点'
LF == 10            \* the one character `.` does not match
I32_MAX == 2147483647

Max(S) == CHOOSE x \in S : \A y \in S : y <= x

\* among the ways the pattern matches, the one a leftmost-first regex reports:
\* each greedy repetition, in the order of the pattern, as long as it can be
RECURSIVE Prefer(_, _)
Prefer(C, i) ==
    IF i > 5 THEN C
    ELSE LET m == Max({c[i] : c \in C})
         IN  Prefer({c \in C : c[i] = m}, i + 1)

\* The ways  ^.*（(year).+年(month).+月(day).+日(hour).+時((minute).+分|)時点）$
\* matches all of t: the positions of （ 年 月 日 時 and the alternative taken.
\* `.` matches every character but LF, and ^ and $ only the ends of t.
Matches(t) ==
    LET L == Len(t)
        Pos(ch) == {i \in 1..L : t[i] = ch}
    IN  IF \/ \E i \in 1..L : t[i] = LF
           \/ L < 3
           \/ <<t[L - 2], t[L - 1], t[L]>> # <<JI, TEN, RPAREN>>
        THEN {}
        ELSE {c \in Pos(LPAREN) \X Pos(NEN) \X Pos(GATSU) \X Pos(NICHI)
                      \X Pos(JI) \X {"minute", "empty"} :
                /\ c[1] + 1 < c[2] /\ c[2] + 1 < c[3]
                /\ c[3] + 1 < c[4] /\ c[4] + 1 < c[5]
                /\ c[6] = "minute" => t[L - 3] = FUN /\ c[5] + 1 < L - 3
                /\ c[6] = "empty" => c[5] = L - 3}

\* re.captures(title): the named groups, or <<>> when there is no match;
\* minute is <<>> when its group did not take part in the match
Captures(t) ==
    IF Matches(t) = {} THEN <<>>
    ELSE LET c == CHOOSE b \in Prefer(Matches(t), 1) : TRUE
         IN  [year |-> SubSeq(t, c[1] + 1, c[2] - 1),
              month |-> SubSeq(t, c[2] + 1, c[3] - 1),
              day |-> SubSeq(t, c[3] + 1, c[4] - 1),
              hour |-> SubSeq(t, c[4] + 1, c[5] - 1),
              minute |-> IF c[6] = "minute"
                         THEN SubSeq(t, c[5] + 1, Len(t) - 4) ELSE <<>>]

\* str::parse::<i32>() on a non-empty string of ASCII digits
ParseI32(s) ==
    LET v == DecimalUpTo(s, 0, I32_MAX)
    IN  IF v < 0 THEN Err(ParseIntError) ELSE Ok(v)

RECURSIVE StripZeros(_)
StripZeros(s) ==
    IF s # <<>> /\ Head(s) = ASCII_ZERO THEN StripZeros(Tail(s)) ELSE s

RECURSIVE DigitsLeq(_, _)
DigitsLeq(a, b) ==
    \/ a = <<>>
    \/ Head(a) < Head(b)
    \/ Head(a) = Head(b) /\ DigitsLeq(Tail(a), Tail(b))

\* str::parse::<u32>() on a non-empty string of ASCII digits. A value in
\* 2^31 .. 2^32-1 is returned as I32_MAX: it is only ever compared with the
\* largest month, day, hour and minute.
ParseU32(s) ==
    LET v == DecimalUpTo(s, 0, I32_MAX)
        z == StripZeros(s)
    IN  IF v >= 0 THEN Ok(v)
        ELSE IF Len(z) = 10 /\ DigitsLeq(z, <<52, 50, 57, 52, 57, 54, 55, 50, 57, 53>>)
        THEN Ok(I32_MAX)
        ELSE Err(ParseIntError)

IsLeap(y) == y % 4 = 0 /\ (y % 100 # 0 \/ y % 400 = 0)
DaysIn(y, m) ==
    IF m = 2 THEN (IF IsLeap(y) THEN 29 ELSE 28)
    ELSE IF m \in {4, 6, 9, 11} THEN 30 ELSE 31

Timestamp(y, mo, d, h, mi) ==
    [year |-> y, month |-> mo, day |-> d, hour |-> h, minute |-> mi]

\* Tokyo.with_ymd_and_hms(y, mo, d, h, mi, 0).unwrap(): the one local time,
\* or a panic when the fields name no date-time. (Years are those of chrono's
\* range in which Asia/Tokyo keeps a single offset, from 1952 on.)
WithYmdHm(y, mo, d, h, mi) ==
    IF /\ y \in 1952..262000 /\ mo \in 1..12 /\ d \in 1..DaysIn(y, mo)
       /\ h \in 0..23 /\ mi \in 0..59
    THEN Some(Timestamp(y, mo, d, h, mi))
    ELSE Panic

\* to_half_digits(group)?.parse().unwrap() for a required group:
\* None returns None from the function, a failed parse panics
RequiredI32(group) ==
    LET h == to_half_digits(group)
    IN  IF h.tag = "None" THEN None
        ELSE IF ParseI32(h.val).tag = "Err" THEN Panic
        ELSE ParseI32(h.val)

RequiredU32(group) ==
    LET h == to_half_digits(group)
    IN  IF h.tag = "None" THEN None
        ELSE IF ParseU32(h.val).tag = "Err" THEN Panic
        ELSE ParseU32(h.val)

\* caps.name("minute").and_then(to_half_digits).map(parse.unwrap).unwrap_or(0)
Minute(group) ==
    LET h == to_half_digits(group)
    IN  IF group = <<>> \/ h.tag = "None" THEN Ok(0)
        ELSE IF ParseU32(h.val).tag = "Err" THEN Panic
        ELSE ParseU32(h.val)

extract_datetime(title) ==
    LET caps == Captures(title)
    IN  IF caps = <<>> THEN None
        ELSE LET year == RequiredI32(caps.year)
                 month == RequiredU32(caps.month)
                 day == RequiredU32(caps.day)
                 hour == RequiredU32(caps.hour)
                 min == Minute(caps.minute)
             IN  IF year.tag # "Ok" THEN year
                 ELSE IF month.tag # "Ok" THEN month
                 ELSE IF day.tag # "Ok" THEN day
                 ELSE IF hour.tag # "Ok" THEN hour
                 ELSE IF min.tag # "Ok" THEN min
                 ELSE WithYmdHm(year.val, month.val, day.val, hour.val, min.val)

\* most leading zeros put before a year and an hour
MaxZeros == 1

\* a title assembled from its parts; min_part is <<>> or a minute and 分
Title(a) ==
    a.prefix \o <<LPAREN>> \o a.year \o <<NEN>> \o a.month \o <<GATSU>>
        \o a.day \o <<NICHI>> \o a.hour \o <<JI>> \o a.min_part
        \o <<JI, TEN, RPAREN>> \o a.suffix

Zeros(n) == [i \in 1..n |-> ASCII_ZERO]

TitleInputs ==
    [prefix : {<<>>, <<97, 98>>, <<97, LF>>,
               <<LPAREN, 49, NEN, 49, GATSU, 49, NICHI, 49, JI, JI, TEN, RPAREN, 97>>},
     year : {Zeros(n) \o y : n \in 0..MaxZeros,
                 y \in {<<50, 48, 50, 50>>, <<65298, 65296, 65298, 65298>>,
                        <<50, 48, 97>>, <<57, 57, 57, 57, 57, 57, 57, 57, 57, 57, 57>>}},
     month : {<<49, 50>>, <<65297, 65298>>, <<57>>, <<49, 51>>, <<97>>},
     day : {<<50, 51>>, <<65298, 65299>>, <<51, 49>>},
     hour : {Zeros(n) \o h : n \in 0..MaxZeros,
                 h \in {<<48>>, <<65296>>, <<50, 52>>}},
     min_part : {<<>>, <<53, FUN>>, <<65301, FUN>>, <<97, FUN>>, <<54, 48, FUN>>,
                 <<FUN>>},
     suffix : {<<>>, <<97>>}]

InitDate ==
    /\ pc = "call" /\ arg \in TitleInputs /\ ret = NoRet
    /\ overflow_checks = FALSE /\ Idle

CallExtractDatetime ==
    /\ pc = "call"
    /\ ret' = Returned(extract_datetime(Title(arg)))
    /\ pc' = Ended(extract_datetime(Title(arg)))
    /\ UNCHANGED <<arg, row, records, lis, k, dtls, overflow_checks>>

SpecDate == InitDate /\ [][CallExtractDatetime]_vars

-----------------------------------------------------------------------------
(* data-formatter: the grid and get_number                                 *)
(*                                                                         *)
(* An integer wider than the model's integers is a pair of limbs:          *)
(* [hi, lo] stands for hi * 2^16 + lo with lo in 0..65535. An i64 has a    *)
(* signed hi (two's complement), a u32 has hi in 0..65535.                 *)

LIMB == 2 ^ 16

Wide(hi, lo) == [hi |-> hi, lo |-> lo]

\* calamine's DataType, as far as the tools look at it
IntCell(hi, lo) == [type |-> "Int", num |-> Wide(hi, lo)]
\* a float: its sign, the limbs of the whole part of its magnitude and the
\* quarters of its fraction; kind is "finite", "nan" or "inf"
FloatCell(kind, neg, hi, lo, quarters) ==
    [type |-> "Float", kind |-> kind, neg |-> neg, num |-> Wide(hi, lo),
     quarters |-> quarters]
StringCell(s) == [type |-> "String", str |-> s]
BoolCell(b) == [type |-> "Bool", bool |-> b]
ErrorCell == [type |-> "Error"]
EmptyCell == [type |-> "Empty"]
\* what get_value returns for a position outside the range
Absent == [type |-> "Absent"]

\* `i as u32` for an i64: the low 32 bits
IntAsU32(w) == Wide(w.hi % LIMB, w.lo)

\* `f as u32` for an f64: towards zero, saturating, NaN to 0
FloatAsU32(f) ==
    IF f.kind = "nan" THEN Wide(0, 0)
    ELSE IF f.neg THEN Wide(0, 0)
    ELSE IF f.kind = "inf" \/ f.num.hi >= LIMB THEN Wide(LIMB - 1, LIMB - 1)
    ELSE f.num

START_ROW == 8
END_ROW == 54
PREFECTURE_INFO == 0
PHASE_INFO == 5
INPATIENT_TOTAL == 2
INPATIENT_DEDICATED == 3
INPATIENT_EXTRA == 4
AVAILABLE_OR_ASSIGNED == 6
GUARANTEED == 7
EXTRA_GUARANTEED == 8

NumberColumns ==
    {INPATIENT_TOTAL, INPATIENT_DEDICATED, INPATIENT_EXTRA,
     AVAILABLE_OR_ASSIGNED, GUARANTEED, EXTRA_GUARANTEED}

\* the decimal digits of a natural number
RECURSIVE Decimal(_)
Decimal(n) ==
    IF n < 10 THEN <<ASCII_ZERO + n>>
    ELSE Decimal(n \div 10) \o <<ASCII_ZERO + (n % 10)>>

\* a sheet laid out like the report: row r of the range holds prefecture
\* r - 7 with a zero-padded code, a phase in digits or in Roman numerals,
\* and counters held as integers or as floats
SheetCell(r, c) ==
    IF c = PREFECTURE_INFO
    THEN StringCell((IF r - START_ROW + 1 < 10 THEN <<ASCII_ZERO>> ELSE <<>>)
                        \o Decimal(r - START_ROW + 1) \o <<32, 26481, 20140, 37117>>)
    ELSE IF c = PHASE_INFO
    THEN IF r % 2 = 0 THEN StringCell(<<65298, FULLWIDTH_SOLIDUS, 65298>>)
         ELSE StringCell(<<ROMAN_ONE, FULLWIDTH_SOLIDUS, ROMAN_TWO>>)
    ELSE IF c \in NumberColumns
    THEN IF (r + c) % 2 = 0 THEN IntCell(0, 10 * r + c)
         ELSE FloatCell("finite", FALSE, 0, 10 * r + c, 2)
    ELSE EmptyCell

\* rows 0 .. height-1 and columns 0 .. width-1 hold cells: those of the
\* sheet, but for the one cell `over` replaces
get_value(data, r, c) ==
    IF r >= data.height \/ c >= data.width THEN Absent
    ELSE IF data.over.row = r /\ data.over.col = c THEN data.over.cell
    ELSE SheetCell(r, c)

get_number(data, r, column) ==
    LET v == get_value(data, r, column)
    IN  IF v.type = "Absent" THEN None
        ELSE IF v.type = "Int" THEN Some(IntAsU32(v.num))
        ELSE IF v.type = "Float" THEN Some(FloatAsU32(v))
        ELSE None

-----------------------------------------------------------------------------
(* data-formatter: read_record and collect_records                         *)

\* DataType's Display, for the cells the model puts in a text column
DisplayCell(v) ==
    CASE v.type = "String" -> v.str
      [] v.type = "Empty" -> <<>>
      [] v.type = "Bool" -> IF v.bool THEN <<116, 114, 117, 101>>
                            ELSE <<102, 97, 108, 115, 101>>
      [] v.type = "Int" /\ v.num.hi = 0 -> Decimal(v.num.lo)
      [] v.type = "Float" /\ v.kind = "finite" /\ ~v.neg /\ v.num.hi = 0 ->
             Decimal(v.num.lo)
                 \o (CASE v.quarters = 0 -> <<>>
                       [] v.quarters = 1 -> <<46, 50, 53>>
                       [] v.quarters = 2 -> <<46, 53>>
                       [] v.quarters = 3 -> <<46, 55, 53>>)

\* the prefecture block: Ok([code, name]) or a panic
ReadPrefecture(data, r) ==
    LET v == get_value(data, r, PREFECTURE_INFO)
        s == Split(DisplayCell(v), 32)
    IN  IF v.type = "Absent" THEN Panic
        ELSE IF Len(s) < 2 THEN Panic
        ELSE Ok([code |-> Trim(s[1]), name |-> Trim(s[2])])

\* parse_phase(get_value(..).expect(..).to_string()).unwrap()
ReadPhase(data, r, checks) ==
    LET v == get_value(data, r, PHASE_INFO)
    IN  IF v.type = "Absent" THEN Panic
        ELSE LET ph == parse_phase(DisplayCell(v), checks)
             IN  IF ph.tag = "Ok" THEN ph ELSE Panic

read_record(data, r, checks) ==
    LET prefecture == ReadPrefecture(data, r)
        phase == ReadPhase(data, r, checks)
        num == [c \in NumberColumns |-> get_number(data, r, c)]
    IN  IF prefecture.tag # "Ok" \/ phase.tag # "Ok" THEN Panic
        ELSE IF \E c \in NumberColumns : num[c].tag = "None" THEN Panic
        ELSE Ok([prefecture |-> prefecture.val,
                 phase |-> phase.val,
                 inpatient_count |->
                     [total |-> num[INPATIENT_TOTAL].val,
                      dedicated |-> num[INPATIENT_DEDICATED].val,
                      extra |-> num[INPATIENT_EXTRA].val],
                 dedicated_bed_count |->
                     [available_or_assigned |-> num[AVAILABLE_OR_ASSIGNED].val,
                      guaranteed |-> num[GUARANTEED].val,
                      extra_guaranteed |-> num[EXTRA_GUARANTEED].val]])

\* the cells get_number is tried on
NumberCells ==
    {IntCell(hi, lo) : hi \in {-LIMB - 1, -LIMB, -1, 0, 1, LIMB - 1, LIMB, LIMB + 1},
                       lo \in {0, 1, 3066, LIMB - 1}}
        \cup {FloatCell("finite", neg, hi, lo, q) :
                  neg \in BOOLEAN, hi \in {0, 1, LIMB - 1, LIMB},
                  lo \in {0, 225, LIMB - 1}, q \in 0..3}
        \cup {FloatCell("nan", FALSE, 0, 0, 0), FloatCell("inf", FALSE, 0, 0, 0),
              FloatCell("inf", TRUE, 0, 0, 0)}
        \cup {StringCell(<<49, 50>>), StringCell(<<>>), BoolCell(TRUE),
              BoolCell(FALSE), ErrorCell, EmptyCell}

Grid(h, w, r, c, v) ==
    [height |-> h, width |-> w, over |-> [row |-> r, col |-> c, cell |-> v]]

InitNumber ==
    /\ pc = "call" /\ ret = NoRet /\ overflow_checks = FALSE /\ Idle
    /\ \/ \E v \in NumberCells :
              arg = Grid(END_ROW + 1, EXTRA_GUARANTEED + 1, START_ROW, INPATIENT_TOTAL, v)
       \/ \E h \in {START_ROW, START_ROW + 1}, w \in {INPATIENT_TOTAL, INPATIENT_TOTAL + 1} :
              arg = Grid(h, w, 0, 0, EmptyCell)

CallGetNumber ==
    /\ pc = "call"
    /\ ret' = Returned(get_number(arg, START_ROW, INPATIENT_TOTAL))
    /\ pc' = Ended(get_number(arg, START_ROW, INPATIENT_TOTAL))
    /\ UNCHANGED <<arg, row, records, lis, k, dtls, overflow_checks>>

SpecNumber == InitNumber /\ [][CallGetNumber]_vars

\* cells put in place of one cell of the sheet: some fit a text column, some
\* a number column, some none
OverCells ==
    {EmptyCell, BoolCell(TRUE), StringCell(<<49, 50>>), IntCell(0, 7),
     FloatCell("finite", FALSE, 0, 7, 2),
     StringCell(<<65305, FULLWIDTH_SOLIDUS, 65305>>),
     StringCell(<<57, 57, 32, 97>>),
     StringCell(<<50, FULLWIDTH_SOLIDUS, ROMAN_TWO>>)}

\* grids of the full size with one cell replaced (one of row 0 is never
\* read), and grids a row or a column short
Grids ==
    {Grid(END_ROW + 1, EXTRA_GUARANTEED + 1, r, c, v) :
        r \in (START_ROW..END_ROW) \cup {0},
        c \in {PREFECTURE_INFO, 1, INPATIENT_TOTAL, PHASE_INFO, EXTRA_GUARANTEED},
        v \in OverCells}
      \cup {Grid(END_ROW, EXTRA_GUARANTEED + 1, START_ROW + 20, PHASE_INFO, EmptyCell),
            Grid(END_ROW, EXTRA_GUARANTEED + 1, 0, 0, EmptyCell),
            Grid(END_ROW + 1, EXTRA_GUARANTEED, 0, 0, EmptyCell)}

\* no phase cell of these grids sums past 255: the build profile is immaterial
InitCollect ==
    /\ pc = "collect" /\ arg \in Grids /\ ret = NoRet
    /\ overflow_checks = FALSE
    /\ row = START_ROW /\ records = <<>> /\ lis = 0 /\ k = 0 /\ dtls = <<>>

\* the range yields `row` and read_record returns its record
CollectRead ==
    /\ pc = "collect" /\ row <= END_ROW
    /\ read_record(arg, row, overflow_checks).tag = "Ok"
    /\ records' = Append(records, read_record(arg, row, overflow_checks).val)
    /\ row' = row + 1
    /\ UNCHANGED <<pc, arg, ret, lis, k, dtls, overflow_checks>>

\* a variant that leaves out the row it cannot read and goes on
CollectSkipping ==
    /\ pc = "collect" /\ row <= END_ROW
    /\ read_record(arg, row, overflow_checks).tag # "Ok"
    /\ row' = row + 1
    /\ UNCHANGED <<pc, arg, ret, records, lis, k, dtls, overflow_checks>>

\* the range yields `row` and read_record panics: the pass unwinds
CollectPanic ==
    /\ pc = "collect" /\ row <= END_ROW
    /\ read_record(arg, row, overflow_checks).tag # "Ok"
    /\ pc' = "panic"
    /\ UNCHANGED <<arg, ret, row, records, lis, k, dtls, overflow_checks>>

\* the range is exhausted: collect() returns the vector
CollectReturn ==
    /\ pc = "collect" /\ row > END_ROW
    /\ ret' = Ok(records)
    /\ pc' = "done"
    /\ UNCHANGED <<arg, row, records, lis, k, dtls, overflow_checks>>

collect_records == CollectRead \/ CollectPanic \/ CollectReturn

SpecCollect == InitCollect /\ [][collect_records]_vars

-----------------------------------------------------------------------------
(* data-scraper: parse_html                                                *)

\* "2022-12-23 00:00"
START_DATETIME == <<50, 48, 50, 50, 45, 49, 50, 45, 50, 51, 32, 48, 48, 58, 48, 48>>

Pad2(n) == IF n < 10 THEN <<ASCII_ZERO>> \o Decimal(n) ELSE Decimal(n)
Pad4(n) ==
    IF n > 9999 THEN <<43>> \o Decimal(n)
    ELSE Zeros(4 - Len(Decimal(n))) \o Decimal(n)

\* dt.format("%Y-%m-%d %H:%M").to_string()
Format(dt) ==
    Pad4(dt.year) \o <<45>> \o Pad2(dt.month) \o <<45>> \o Pad2(dt.day)
        \o <<32>> \o Pad2(dt.hour) \o <<58>> \o Pad2(dt.minute)

Report(timestamp, path) == [timestamp |-> timestamp, path |-> path]

\* An element child of the list: text is the text of its first child when
\* that is a text node, href the href of its first element child when it has
\* one; <<>> stands for their absence, a present one is <<its string>>.
Element(text, href) == [text |-> text, href |-> href]

\* most entries on a page
MaxEntries == 3
\* largest count n given on the command line
MaxCount == 3

TitleOf(y, mo, d, h, mp) ==
    Title([prefix |-> <<97>>, year |-> y, month |-> mo, day |-> d, hour |-> h,
           min_part |-> mp, suffix |-> <<>>])

\* the three elements of an entry: its title, the element nth(1) skips, and
\* the element that holds the link
EntryKinds ==
    {<<Element(<<TitleOf(<<50, 48, 50, 50>>, <<49, 50>>, <<51, 48>>, <<48>>, <<>>)>>, <<>>),
       Element(<<>>, <<>>), Element(<<>>, <<<<47, 97>>>>)>>,
     <<Element(<<TitleOf(<<50, 48, 50, 50>>, <<49, 50>>, <<50, 51>>, <<48>>, <<>>)>>, <<>>),
       Element(<<>>, <<>>), Element(<<>>, <<<<47, 98>>>>)>>,
     <<Element(<<TitleOf(<<65298, 65296, 65298, 65298>>, <<65297, 65298>>,
                         <<65298, 65299>>, <<65296>>, <<48, FUN>>)>>, <<>>),
       Element(<<>>, <<>>), Element(<<>>, <<<<47, 99>>>>)>>,
     <<Element(<<TitleOf(<<50, 48, 50, 50>>, <<49, 50>>, <<50, 51>>, <<48>>, <<53, FUN>>)>>, <<>>),
       Element(<<>>, <<>>), Element(<<>>, <<<<47, 100>>>>)>>,
     <<Element(<<<<97, 98>>>>, <<>>),
       Element(<<>>, <<>>), Element(<<>>, <<<<47, 101>>>>)>>,
     <<Element(<<TitleOf(<<50, 48, 50, 50>>, <<49, 50>>, <<49, 54>>, <<48>>, <<>>)>>, <<>>),
       Element(<<>>, <<>>), Element(<<>>, <<>>)>>}

RECURSIVE Flatten(_)
Flatten(ss) == IF ss = <<>> THEN <<>> ELSE Head(ss) \o Flatten(Tail(ss))

\* the element children of the list, and the count n as an Option
Pages ==
    {[elements |-> Flatten(es) \o tail, n |-> n] :
        es \in StringsUpTo(EntryKinds, MaxEntries),
        tail \in {<<>>, <<Element(<<<<97>>>>, <<>>)>>},
        n \in {<<>>} \cup {<<c>> : c \in 0..MaxCount}}

InitScrape ==
    /\ pc = "scan" /\ arg \in Pages /\ ret = NoRet
    /\ overflow_checks = FALSE
    /\ row = 0 /\ records = <<>> /\ lis = 0 /\ k = 0 /\ dtls = <<>>

\* lis.next() / lis.nth(j - 1) after `lis` elements were consumed:
\* the element, or <<>> when the iterator is exhausted
Nth(page, consumed, j) ==
    IF consumed + j <= Len(page.elements)
    THEN <<page.elements[consumed + j]>> ELSE <<>>

\* the body of the loop up to the push: Ok(the report), or a panic from one
\* of its unwraps
Body(page, consumed) ==
    LET title == Nth(page, consumed, 1)
        link == Nth(page, consumed, 3)
    IN  IF title = <<>> THEN Panic
        ELSE IF title[1].text = <<>> THEN Panic
        ELSE LET dt == extract_datetime(title[1].text[1])
             IN  IF dt.tag # "Some" THEN Panic
                 ELSE IF link = <<>> THEN Panic
                 ELSE IF link[1].href = <<>> THEN Panic
                 ELSE Ok(Report(dt.val, link[1].href[1]))

\* `ns` has a next value: n is None, or fewer than n values were taken
HasNext(page, taken) == IF page.n = <<>> THEN TRUE ELSE taken < page.n[1]

\* a variant of the test that compares the date alone
IsStartDay(report) ==
    SubSeq(Format(report.timestamp), 1, 10) = SubSeq(START_DATETIME, 1, 10)

\* the test that ends the loop after the push
IsStart(report) == Format(report.timestamp) = START_DATETIME

\* `ns` is exhausted: the function returns dtls
ScanReturn ==
    /\ pc = "scan" /\ ~HasNext(arg, k)
    /\ ret' = Ok(dtls)
    /\ pc' = "done"
    /\ UNCHANGED <<arg, row, records, lis, k, dtls, overflow_checks>>

\* one turn of the loop that pushes and goes on
ScanPush ==
    /\ pc = "scan" /\ HasNext(arg, k)
    /\ Body(arg, lis).tag = "Ok"
    /\ ~IsStart(Body(arg, lis).val)
    /\ dtls' = Append(dtls, Body(arg, lis).val)
    /\ lis' = lis + 3
    /\ k' = k + 1
    /\ UNCHANGED <<pc, arg, ret, row, records, overflow_checks>>

\* one turn of the loop that pushes the report of START_DATETIME and breaks
ScanBreak ==
    /\ pc = "scan" /\ HasNext(arg, k)
    /\ Body(arg, lis).tag = "Ok"
    /\ IsStart(Body(arg, lis).val)
    /\ dtls' = Append(dtls, Body(arg, lis).val)
    /\ lis' = lis + 3
    /\ k' = k + 1
    /\ ret' = Ok(dtls')
    /\ pc' = "done"
    /\ UNCHANGED <<arg, row, records, overflow_checks>>

\* one turn of the loop in which an unwrap panics
ScanPanic ==
    /\ pc = "scan" /\ HasNext(arg, k)
    /\ Body(arg, lis).tag = "Panic"
    /\ k' = k + 1
    /\ pc' = "panic"
    /\ UNCHANGED <<arg, ret, row, records, lis, dtls, overflow_checks>>

parse_html == ScanReturn \/ ScanPush \/ ScanBreak \/ ScanPanic

SpecScrape == InitScrape /\ [][parse_html]_vars

-----------------------------------------------------------------------------
(* The claims.                                                             *)

\* what the claims call a digit, and its numeric value
IsAnyDigit(c) == c \in (48..57) \cup (65296..65305)
NumericValue(c) == IF c >= 65296 THEN c - 65296 ELSE c - 48
AllDigits(s) == \A i \in 1..Len(s) : IsAnyDigit(s[i])

\* the number a run of digits of either width writes
RECURSIVE ValueOf(_)
ValueOf(s) ==
    IF s = <<>> THEN 0
    ELSE ValueOf(SubSeq(s, 1, Len(s) - 1)) * 10 + NumericValue(s[Len(s)])

\* C1: to_half_digits(s) is Some(t) exactly when every character of s is an
\* ASCII or a full-width digit, and then t is as long as s and t[i] is the
\* ASCII digit of the value of s[i]; for any other s it is None.
C1_HalfDigits ==
    pc # "call" =>
        /\ pc = "done"
        /\ IF AllDigits(arg)
           THEN /\ ret.tag = "Some"
                /\ Len(ret.val) = Len(arg)
                /\ \A i \in 1..Len(arg) :
                       /\ ret.val[i] \in 48..57
                       /\ ret.val[i] - 48 = NumericValue(arg[i])
           ELSE ret = None

\* C1 witness: the mixed-width string "1１1１1" has been normalised to "11111"
C1_Witness ==
    /\ pc = "done"
    /\ arg = <<49, 65297, 49, 65297, 49>>
    /\ ret = Some(<<49, 49, 49, 49, 49>>)

\* the scan the claim C2 describes, from position i: the sum of the
\* contributions, or -1 when it meets a character the claim does not describe
RECURSIVE ClaimedRoman(_, _)
ClaimedRoman(s, i) ==
    IF i > Len(s) THEN 0
    ELSE LET c == s[i]
             nxt == IF i < Len(s) THEN s[i + 1] ELSE 0
             step == IF c \in {73, 8544}
                     THEN IF nxt \in {86, 8548} THEN <<4, 2>>
                          ELSE IF nxt \in {88, 8553} THEN <<9, 2>>
                          ELSE <<1, 1>>
                     ELSE IF c = 86 THEN <<5, 1>>
                     ELSE IF c \in 8545..8551 THEN <<c - 8543, 1>>
                     ELSE <<>>
         IN  IF step = <<>> THEN -1
             ELSE LET rest == ClaimedRoman(s, i + step[2])
                  IN  IF rest < 0 THEN -1 ELSE step[1] + rest

\* C2: parse_roman_numerals returns the sum of the contributions of a scan
\* from the left in which I or U+2160 followed by V or U+2164 is 4, followed
\* by X or U+2169 is 9, any other I is 1, V is 5 and each of U+2161..U+2167
\* is its own value.
C2_RomanContributions ==
    pc # "call" /\ ClaimedRoman(arg, 1) \in 0..255 =>
        pc = "done" /\ ret = Ok(ClaimedRoman(arg, 1))

\* C3: for a cell "<current>／<maximum>" the arm taken is decided by the
\* trimmed first part alone: when it is all digits the result is a Normal
\* phase of the values of the two digit runs (or a failure of that arm), and
\* otherwise an Emergency phase of parse_roman_numerals of the two trimmed
\* parts (or a failure of that arm).
C3_PhaseMode ==
    pc = "done" /\ Len(Split(arg, 65295)) = 2 =>
        LET c == Trim(Split(arg, 65295)[1])
            m == Trim(Split(arg, 65295)[2])
        IN  IF AllDigits(c)
            THEN /\ ret.tag = "Ok" =>
                        /\ ret.val.mode = "Normal"
                        /\ AllDigits(m)
                        /\ ret.val.current = ValueOf(c)
                        /\ ret.val.maximum = ValueOf(m)
                 /\ ret.tag = "Err" => ret.val.kind = "ParseIntError"
            ELSE /\ ret.tag = "Ok" =>
                        /\ ret.val.mode = "Emergency"
                        /\ Ok(ret.val.current) = parse_roman_numerals(c, overflow_checks)
                        /\ Ok(ret.val.maximum) = parse_roman_numerals(m, overflow_checks)
                 /\ ret.tag = "Err" => ret.val.kind = "ParseRomanError"

\* C3 witness: " ２ ／007" has been parsed to the Normal phase 2 of 7
C3_Witness ==
    /\ pc = "done"
    /\ arg = <<32, 65298, 32, 65295, 48, 48, 55>>
    /\ ret = Ok(Phase(2, 7, "Normal"))

\* C4: parse_phase ends by returning a Phase or a typed failure, whatever
\* the input; it never aborts.
C4_NeverAborts == pc # "call" => pc = "done" /\ ret.tag \in {"Ok", "Err"}

\* C5: every Phase parse_phase returns has current and maximum in 1..9.
C5_PhaseRange ==
    pc = "done" /\ ret.tag = "Ok" =>
        ret.val.current \in 1..9 /\ ret.val.maximum \in 1..9

\* C6: extract_datetime returns None whenever the title does not match the
\* pattern or a captured group (the minute included, when present) does not
\* normalise.
C6_NoneOnFailure ==
    pc # "call" =>
        LET caps == Captures(Title(arg))
        IN  (IF caps = <<>> THEN TRUE
             ELSE \/ ~AllDigits(caps.year) \/ ~AllDigits(caps.month)
                  \/ ~AllDigits(caps.day) \/ ~AllDigits(caps.hour)
                  \/ ~AllDigits(caps.minute))
                => pc = "done" /\ ret = None

\* a title of the claim C7: digit runs that name a date-time, the minute and
\* its 分 present or not, and nothing after the parenthesis
C7_WellFormed(a) ==
    /\ a.suffix = <<>>
    /\ \A f \in {a.year, a.month, a.day, a.hour} :
           f # <<>> /\ AllDigits(f) /\ Len(f) <= 6
    /\ a.min_part # <<>> =>
           /\ Len(a.min_part) \in 2..3
           /\ a.min_part[Len(a.min_part)] = 20998
           /\ AllDigits(SubSeq(a.min_part, 1, Len(a.min_part) - 1))
    /\ ValueOf(a.year) \in 1952..9999
    /\ ValueOf(a.month) \in 1..12
    /\ ValueOf(a.day) \in 1..DaysIn(ValueOf(a.year), ValueOf(a.month))
    /\ ValueOf(a.hour) \in 0..23
    /\ a.min_part # <<>> =>
           ValueOf(SubSeq(a.min_part, 1, Len(a.min_part) - 1)) \in 0..59

C7_Expected(a) ==
    Some(Timestamp(ValueOf(a.year), ValueOf(a.month), ValueOf(a.day),
                   ValueOf(a.hour),
                   IF a.min_part = <<>> THEN 0
                   ELSE ValueOf(SubSeq(a.min_part, 1, Len(a.min_part) - 1))))

\* C7: for a title that ends with such a parenthesis, whatever precedes it,
\* extract_datetime returns the timestamp the digit runs name, the minute
\* being 0 when absent; the width of the digits does not matter.
C7_Timestamp ==
    pc # "call" /\ C7_WellFormed(arg) =>
        pc = "done" /\ ret = C7_Expected(arg)

\* C8: collect_records reads the rows 8..54 in order, one record a row; what
\* it returns is the 47 records of those rows in row order; when a row
\* cannot be read nothing is returned and no later row is read.
C8_AllOrNothing ==
    /\ Len(records) = row - 8
    /\ pc # "done" => ret = NoRet
    /\ pc = "done" =>
           /\ ret = Ok(records)
           /\ Len(records) = 47
           /\ \A i \in 1..47 :
                  Ok(records[i]) = read_record(arg, 8 + i - 1, overflow_checks)
    /\ pc = "panic" =>
           /\ row \in 8..54
           /\ read_record(arg, row, overflow_checks).tag # "Ok"
           /\ \A r \in 8..(row - 1) :
                  read_record(arg, r, overflow_checks).tag = "Ok"

\* C8 witness: a pass has returned; the float cell 7.5 put in the last
\* column of row 54 is the last counter of the 47th record
C8_Witness ==
    /\ pc = "done"
    /\ arg.over = [row |-> 54, col |-> 8, cell |-> FloatCell("finite", FALSE, 0, 7, 2)]
    /\ Len(ret.val) = 47
    /\ ret.val[47].dedicated_bed_count.extra_guaranteed = Wide(0, 7)
    /\ ret.val[13].prefecture.code = <<49, 51>>

\* C9: get_number returns a value only for an integer or a float cell; for
\* an integer cell it is the cell's own number, for a float cell the number
\* truncated towards zero; for a missing cell and any other cell it fails.
C9_NumberValue ==
    pc # "call" =>
        LET v == get_value(arg, 8, 2)
        IN  /\ pc = "done"
            /\ IF v.type = "Int" THEN ret = Some(v.num)
               ELSE IF v.type = "Float"
               THEN ret.tag = "Some"
                    /\ (v.kind = "finite" /\ ~v.neg => ret.val = v.num)
               ELSE ret = None

CutOff == Timestamp(2022, 12, 23, 0, 0)

\* the report of the i-th entry of the page
EntryReport(page, i) ==
    Report(extract_datetime(page.elements[3 * i - 2].text[1]).val,
           page.elements[3 * i].href[1])

\* C10: the reports are a prefix of the entries of the page in page order;
\* none follows the report of 2022-12-23 00:00 and there are never more than
\* n of them; parse_html returns them only once there are n or the last one
\* is that of 2022-12-23 00:00, so never for want of entries.
C10_PrefixUpToStart ==
    /\ \A i \in 1..Len(dtls) : dtls[i] = EntryReport(arg, i)
    /\ \A i \in 1..(Len(dtls) - 1) : dtls[i].timestamp # CutOff
    /\ arg.n # <<>> => Len(dtls) <= arg.n[1]
    /\ pc # "done" => ret = NoRet
    /\ pc = "done" =>
           /\ ret = Ok(dtls)
           /\ \/ arg.n # <<>> /\ Len(dtls) = arg.n[1]
              \/ dtls # <<>> /\ dtls[Len(dtls)].timestamp = CutOff

\* C10 witness: with n = 3 and three entries, the scan has returned the two
\* first ones, the second being that of 2022-12-23 00:00
C10_Witness ==
    /\ pc = "done"
    /\ arg.n = <<3>>
    /\ Len(arg.elements) = 9
    /\ Len(ret.val) = 2
    /\ ret.val[1].timestamp = Timestamp(2022, 12, 30, 0, 0)
    /\ ret.val[2].timestamp = CutOff

====
